---- MODULE Spec2Model ----
(***************************************************************************)
(* Model of PL_2025-26_prediction.py: parse_match_results,                 *)
(* summarise_season and prepare_training_data.                             *)
(*                                                                         *)
(* SpecSeason runs summarise_season one match at a time (the body of the   *)
(* loop at lines 132-157 is one step) and then builds the ranked summary   *)
(* (lines 160-180).  SpecTrain runs prepare_training_data over a list of   *)
(* season files: one step per file read (lines 211-215), one step per      *)
(* consecutive season pair (lines 222-224 and the row construction that    *)
(* follows them), and the return.                                          *)
(*                                                                         *)
(* The if/elif/else of lines 142-157 is read as part of the loop body of   *)
(* line 132, as its statements' indentation (12 columns) shows.            *)
(***************************************************************************)
EXTENDS Integers, Sequences, FiniteSets, TLC

VARIABLES
    pc,               \* summarise_season: "fold", "done" or "error"
    teams,            \* the defaultdict `teams`, in insertion order
    summary,          \* the returned DataFrame, a sequence of rows
    nFolded,          \* number of matches folded so far
    nDecisive,        \* history: folded matches with home_goals # away_goals
    nDraws,           \* history: folded matches with home_goals = away_goals
    played,           \* history: team -> matches folded with the team in them
    firstAt,          \* history: team -> first encounter (0 = not yet)
    last,             \* history: the match folded by the latest step
    tpc,              \* prepare_training_data: "read", "pair", "return", "done", "error"
    season_files,     \* the argument: a list of file paths
    fileIdx,          \* number of files read by the loop of line 211
    contents,         \* history: the raw records read_csv returned, per file read
    season_summaries, \* the dict season_summaries: path -> summary
    pairIdx,          \* the loop variable i of line 222
    feature_rows,     \* the list feature_rows
    target_rows,      \* the list target_rows
    pairs             \* history: per emitted row, the pair <<i, i+1>> it came from

seasonVars == <<pc, teams, summary, nFolded, nDecisive, nDraws, played, firstAt, last>>
trainVars == <<tpc, season_files, fileIdx, contents, season_summaries, pairIdx,
               feature_rows, target_rows, pairs>>
vars == <<pc, teams, summary, nFolded, nDecisive, nDraws, played, firstAt, last,
          tpc, season_files, fileIdx, contents, season_summaries, pairIdx,
          feature_rows, target_rows, pairs>>

\* Bound of the model: the longest match list summarise_season is run on.
MaxMatches == 2

\* Team names and goal counts that occur in the match lists.
Teams == {"A", "B", "C", "D"}
Goals == {0, 1}

----------------------------------------------------------------------------
\* summarise_season, lines 122-180

ZeroStats(t) ==
    [team |-> t, points |-> 0, wins |-> 0, draws |-> 0, losses |-> 0,
     goals_for |-> 0, goals_against |-> 0]

HasKey(d, t) == \E i \in 1..Len(d) : d[i].team = t

\* teams[t] on a defaultdict: a missing key is inserted, at the end.
Touch(d, t) == IF HasKey(d, t) THEN d ELSE Append(d, ZeroStats(t))

IndexOf(d, t) == CHOOSE i \in 1..Len(d) : d[i].team = t

\* teams[t][field] += n
AddTo(d, t, field, n) ==
    LET e == Touch(d, t)
        i == IndexOf(e, t)
    IN  [e EXCEPT ![i][field] = @ + n]

UpdateGoals_swapped(d, home, away, hg, ag) ==
    AddTo(AddTo(AddTo(AddTo(d, home, "goals_for", hg),
                      home, "goals_against", ag),
                away, "goals_for", ag),
          away, "goals_against", ag)

UpdateGoals(d, home, away, hg, ag) ==
    AddTo(AddTo(AddTo(AddTo(d, home, "goals_for", hg),
                      home, "goals_against", ag),
                away, "goals_for", ag),
          away, "goals_against", hg)

HomeWin(d, home, away) ==
    AddTo(AddTo(AddTo(d, home, "points", 3), home, "wins", 1), away, "losses", 1)

AwayWin(d, home, away) ==
    AddTo(AddTo(AddTo(d, away, "points", 3), away, "wins", 1), home, "losses", 1)

Draw(d, home, away) ==
    AddTo(AddTo(AddTo(AddTo(d, home, "points", 1), away, "points", 1),
                home, "draws", 1),
          away, "draws", 1)

\* if / if / else instead of if / elif / else: a home win also runs the else.
UpdateOutcome_noelif(d, home, away, hg, ag) ==
    LET d1 == IF hg > ag THEN HomeWin(d, home, away) ELSE d
    IN  IF hg < ag THEN AwayWin(d1, home, away) ELSE Draw(d1, home, away)

\* the loser of a home win gets no loss.
UpdateOutcome_noloss(d, home, away, hg, ag) ==
    IF hg > ag THEN AddTo(AddTo(d, home, "points", 3), home, "wins", 1)
    ELSE IF hg < ag THEN AwayWin(d, home, away)
    ELSE Draw(d, home, away)

\* a draw gives the point to the home side only.
UpdateOutcome_homepoint(d, home, away, hg, ag) ==
    IF hg > ag THEN HomeWin(d, home, away)
    ELSE IF hg < ag THEN AwayWin(d, home, away)
    ELSE AddTo(AddTo(AddTo(d, home, "points", 1), home, "draws", 1), away, "draws", 1)

UpdateOutcome(d, home, away, hg, ag) ==
    IF hg > ag THEN HomeWin(d, home, away)
    ELSE IF hg < ag THEN AwayWin(d, home, away)
    ELSE Draw(d, home, away)

\* one iteration of the loop of line 132
FoldOne(d, home, away, hg, ag) ==
    UpdateOutcome(UpdateGoals(d, home, away, hg, ag), home, away, hg, ag)

\* the list `data`: one row per key of the dict, in the dict's order
BuildData(d) ==
    [i \in 1..Len(d) |->
        [team |-> d[i].team, points |-> d[i].points, wins |-> d[i].wins,
         draws |-> d[i].draws, losses |-> d[i].losses,
         goals_for |-> d[i].goals_for, goals_against |-> d[i].goals_against,
         goal_diff |-> d[i].goals_for - d[i].goals_against]]

\* only the first sort column is compared.
KeyBefore_pointsonly(r, s) == r.points > s.points

\* r sorts strictly before s under ["points", "goal_diff", "goals_for"],
\* all three descending
KeyBefore(r, s) ==
    \/ r.points > s.points
    \/ r.points = s.points /\ r.goal_diff > s.goal_diff
    \/ r.points = s.points /\ r.goal_diff = s.goal_diff /\ r.goals_for > s.goals_for

InsertAt(s, k, r) == SubSeq(s, 1, k - 1) \o <<r>> \o SubSeq(s, k, Len(s))

\* r goes before the first row that does not sort strictly before it: rows
\* with an equal key end up in reverse order.
InsertRow_unstable(s, r) ==
    LET later == {k \in 1..Len(s) : ~KeyBefore(s[k], r)}
        k == IF later = {} THEN Len(s) + 1
             ELSE CHOOSE x \in later : \A y \in later : x <= y
    IN  InsertAt(s, k, r)

\* r goes before the first row it sorts strictly before: rows with an equal
\* key keep the order they had in `data`.
InsertRow(s, r) ==
    LET later == {k \in 1..Len(s) : KeyBefore(r, s[k])}
        k == IF later = {} THEN Len(s) + 1
             ELSE CHOOSE x \in later : \A y \in later : x <= y
    IN  InsertAt(s, k, r)

RECURSIVE sort_values(_)
sort_values(rows) ==
    IF rows = <<>> THEN <<>>
    ELSE InsertRow(sort_values(SubSeq(rows, 1, Len(rows) - 1)), rows[Len(rows)])

\* summary["position"] = summary.index
AssignPosition_zerobased(rows) ==
    [i \in 1..Len(rows) |->
        [team |-> rows[i].team, points |-> rows[i].points, wins |-> rows[i].wins,
         draws |-> rows[i].draws, losses |-> rows[i].losses,
         goals_for |-> rows[i].goals_for, goals_against |-> rows[i].goals_against,
         goal_diff |-> rows[i].goal_diff, position |-> i - 1]]

\* summary["position"] = summary.index + 1, after reset_index(drop=True)
AssignPosition(rows) ==
    [i \in 1..Len(rows) |->
        [team |-> rows[i].team, points |-> rows[i].points, wins |-> rows[i].wins,
         draws |-> rows[i].draws, losses |-> rows[i].losses,
         goals_for |-> rows[i].goals_for, goals_against |-> rows[i].goals_against,
         goal_diff |-> rows[i].goal_diff, position |-> i - 1 + 1]]

\* lines 160-180 on a non-empty dict
RankTeams(d) == AssignPosition(sort_values(BuildData(d)))

----------------------------------------------------------------------------
\* SpecSeason: summarise_season, one match per step

NoMatch == [home |-> "", away |-> "", hg |-> 0, ag |-> 0]

TrainIdle ==
    /\ tpc = "idle"
    /\ season_files = <<>>
    /\ fileIdx = 0
    /\ contents = <<>>
    /\ season_summaries = <<>>
    /\ pairIdx = 0
    /\ feature_rows = <<>>
    /\ target_rows = <<>>
    /\ pairs = <<>>

InitSeason ==
    /\ pc = "fold"
    /\ teams = <<>>
    /\ summary = <<>>
    /\ nFolded = 0
    /\ nDecisive = 0
    /\ nDraws = 0
    /\ played = [t \in Teams |-> 0]
    /\ firstAt = [t \in Teams |-> 0]
    /\ last = NoMatch
    /\ TrainIdle

\* lines 132-157: the next row of `matches` is folded into `teams`
Fold(home, away, hg, ag) ==
    /\ pc = "fold"
    /\ nFolded < MaxMatches
    /\ home # away
    /\ teams' = FoldOne(teams, home, away, hg, ag)
    /\ nFolded' = nFolded + 1
    /\ nDecisive' = IF hg # ag THEN nDecisive + 1 ELSE nDecisive
    /\ nDraws' = IF hg = ag THEN nDraws + 1 ELSE nDraws
    /\ played' = [played EXCEPT ![home] = @ + 1, ![away] = @ + 1]
    /\ firstAt' = [t \in Teams |->
                     IF firstAt[t] # 0 THEN firstAt[t]
                     ELSE IF t = home THEN 2 * nFolded + 1
                     ELSE IF t = away THEN 2 * nFolded + 2
                     ELSE 0]
    /\ last' = [home |-> home, away |-> away, hg |-> hg, ag |-> ag]
    /\ UNCHANGED <<pc, summary>>
    /\ UNCHANGED trainVars

\* lines 160-180 after at least one match
Summarise ==
    /\ pc = "fold"
    /\ nFolded > 0
    /\ summary' = RankTeams(teams)
    /\ pc' = "done"
    /\ UNCHANGED <<teams, nFolded, nDecisive, nDraws, played, firstAt, last>>
    /\ UNCHANGED trainVars

\* lines 160-180 on an empty `matches`: pd.DataFrame([]) has no column
\* "points" and sort_values raises KeyError
SummariseEmpty ==
    /\ pc = "fold"
    /\ nFolded = 0
    /\ pc' = "error"
    /\ UNCHANGED <<teams, summary, nFolded, nDecisive, nDraws, played, firstAt, last>>
    /\ UNCHANGED trainVars

NextSeason ==
    \/ \E home \in Teams, away \in Teams, hg \in Goals, ag \in Goals :
           Fold(home, away, hg, ag)
    \/ Summarise
    \/ SummariseEmpty

SpecSeason == InitSeason /\ [][NextSeason]_vars

----------------------------------------------------------------------------
\* parse_match_results, lines 75-97.  A string is a sequence of characters.

Digits == {"0", "1", "2", "3"}

DigitVal(c) == CASE c = "0" -> 0 [] c = "1" -> 1 [] c = "2" -> 2 [] c = "3" -> 3

\* str.split("-") of one cell
RECURSIVE Split(_)
Split(s) ==
    LET seps == {k \in 1..Len(s) : s[k] = "-"}
    IN  IF seps = {} THEN <<s>>
        ELSE LET k == CHOOSE x \in seps : \A y \in seps : x <= y
             IN  <<SubSeq(s, 1, k - 1)>> \o Split(SubSeq(s, k + 1, Len(s)))

\* expand=True: as many columns as the longest split; the result of an empty
\* column FT has no columns
NumColumns(raw) ==
    IF raw = <<>> THEN 0
    ELSE CHOOSE n \in {Len(Split(raw[i].FT)) : i \in 1..Len(raw)} :
             \A i \in 1..Len(raw) : Len(Split(raw[i].FT)) <= n

Missing == <<"None">>

\* goals[c] at row i (c counted from 1): shorter splits are padded with None
Cell(raw, i, c) ==
    IF c <= Len(Split(raw[i].FT)) THEN Split(raw[i].FT)[c] ELSE Missing

\* int(p) succeeds: over this alphabet, a non-empty run of digits
IsIntLiteral(p) == p # <<>> /\ \A k \in 1..Len(p) : p[k] \in Digits

RECURSIVE IntOf(_)
IntOf(p) ==
    IF p = <<>> THEN 0
    ELSE 10 * IntOf(SubSeq(p, 1, Len(p) - 1)) + DigitVal(p[Len(p)])

\* goals[c].astype(int) succeeds: the column exists (else KeyError) and
\* every cell converts (else ValueError / TypeError)
ColumnConverts(raw, c) ==
    /\ c <= NumColumns(raw)
    /\ \A i \in 1..Len(raw) : IsIntLiteral(Cell(raw, i, c))

\* parse_match_results returns instead of raising
ParseSucceeds(raw) == ColumnConverts(raw, 1) /\ ColumnConverts(raw, 2)

\* the returned DataFrame
parse_match_results(raw) ==
    [i \in 1..Len(raw) |->
        [team1 |-> raw[i].team1, team2 |-> raw[i].team2, FT |-> raw[i].FT,
         home_goals |-> IntOf(Cell(raw, i, 1)),
         away_goals |-> IntOf(Cell(raw, i, 2))]]

\* the loop of line 132 over all rows
RECURSIVE FoldAll(_, _)
FoldAll(d, matches) ==
    IF matches = <<>> THEN d
    ELSE FoldAll(FoldOne(d, matches[1].team1, matches[1].team2,
                         matches[1].home_goals, matches[1].away_goals),
                 SubSeq(matches, 2, Len(matches)))

\* summarise_season on a non-empty match list
summarise_season(matches) == RankTeams(FoldAll(<<>>, matches))

----------------------------------------------------------------------------
\* prepare_training_data, lines 208-224 and the rest of the function

\* Final-score strings that occur in the season files.
ScoreStrings ==
    { <<"1", "-", "0">>, <<"0", "-", "1">>, <<"1", "-", "1">>,
      <<"1", "-", "2", "-", "3">>, <<"a", "b", "c">>, <<"1", "-">>, <<>>, <<"1">> }

\* The fixtures of the season files, by path.
Paths == {"s1", "s2", "s3"}

Fixtures(path) ==
    CASE path = "s1" -> << <<"A", "B">>, <<"C", "D">> >>
      [] path = "s2" -> << <<"E", "A">>, <<"B", "C">> >>
      [] path = "s3" -> << <<"C", "D">>, <<"A", "E">> >>

\* what pd.read_csv(path) can return: the fixtures with any scores
FileContents(path) ==
    { [i \in 1..Len(Fixtures(path)) |->
          [team1 |-> Fixtures(path)[i][1], team2 |-> Fixtures(path)[i][2], FT |-> ft[i]]] :
      ft \in [1..Len(Fixtures(path)) -> ScoreStrings] }

\* The values of the argument season_files.
FileLists ==
    { <<>>, <<"s1">>, <<"s1", "s2">>, <<"s1", "s2", "s3">>, <<"s2", "s1">>,
      <<"s3", "s3">> }

FeatureCols ==
    <<"points", "wins", "draws", "losses", "goals_for", "goals_against", "goal_diff">>

\* range(len(files_sorted) - 1) has one iteration too few
NumPairs_short(k) == IF k > 2 THEN k - 2 ELSE 0

\* range(len(files_sorted) - 1)
NumPairs(k) == IF k > 1 THEN k - 1 ELSE 0

\* the index of prev_summary's file in iteration i
PrevIndex(i) == i

\* curr_summary is taken from files_sorted[i]
CurrIndex_same(i) == i

\* the index of curr_summary's file in iteration i
CurrIndex(i) == i + 1

\* .set_index("team"): the row of team t, and whether there is one
InIndex(s, t) == \E i \in 1..Len(s) : s[i].team = t
Loc(s, t) == s[CHOOSE i \in 1..Len(s) : s[i].team = t]

\* a feature value is a fraction <<numerator, denominator>>
Verbatim(row) == [f \in {FeatureCols[k] : k \in 1..Len(FeatureCols)} |-> <<row[f], 1>>]

\* the three lowest-positioned rows of a summary (every season of Fixtures
\* has at least three teams)
BottomThree(s) == SubSeq(s, Len(s) - 2, Len(s))

\* the element-wise mean of the bottom three
DefaultFeatures(s) ==
    [f \in {FeatureCols[k] : k \in 1..Len(FeatureCols)} |->
        <<BottomThree(s)[1][f] + BottomThree(s)[2][f] + BottomThree(s)[3][f], 3>>]

\* one training row per team of curr, in curr's order
PairFeatures(prev, curr) ==
    [i \in 1..Len(curr) |->
        IF InIndex(prev, curr[i].team) THEN Verbatim(Loc(prev, curr[i].team))
        ELSE DefaultFeatures(prev)]

PairTargets(curr) == [i \in 1..Len(curr) |-> curr[i].position]

SeasonIdle ==
    /\ pc = "idle"
    /\ teams = <<>>
    /\ summary = <<>>
    /\ nFolded = 0
    /\ nDecisive = 0
    /\ nDraws = 0
    /\ played = [t \in Teams |-> 0]
    /\ firstAt = [t \in Teams |-> 0]
    /\ last = NoMatch

InitTrain ==
    /\ tpc = "read"
    /\ season_files \in FileLists
    /\ fileIdx = 0
    /\ contents = <<>>
    /\ season_summaries = <<>>
    /\ pairIdx = 0
    /\ feature_rows = <<>>
    /\ target_rows = <<>>
    /\ pairs = <<>>
    /\ SeasonIdle

\* what the next pd.read_csv of line 212 can return
NextContents ==
    IF tpc = "read" /\ fileIdx < Len(season_files)
    THEN FileContents(season_files[fileIdx + 1])
    ELSE {}

\* a file does not change during the run: a path read before reads the same
SameAsBefore(path, raw) ==
    \A k \in 1..Len(contents) : season_files[k] = path => contents[k] = raw

\* lines 211-215, parse_match_results returns
ReadFile(raw) ==
    /\ tpc = "read"
    /\ fileIdx < Len(season_files)
    /\ raw \in FileContents(season_files[fileIdx + 1])
    /\ SameAsBefore(season_files[fileIdx + 1], raw)
    /\ ParseSucceeds(raw)
    /\ contents' = Append(contents, raw)
    /\ season_summaries' =
           [p \in DOMAIN season_summaries \cup {season_files[fileIdx + 1]} |->
               IF p = season_files[fileIdx + 1]
               THEN summarise_season(parse_match_results(raw))
               ELSE season_summaries[p]]
    /\ fileIdx' = fileIdx + 1
    /\ UNCHANGED <<tpc, season_files, pairIdx, feature_rows, target_rows, pairs>>
    /\ UNCHANGED seasonVars

\* lines 211-213, parse_match_results raises: the exception leaves
\* prepare_training_data
ReadFileFails(raw) ==
    /\ tpc = "read"
    /\ fileIdx < Len(season_files)
    /\ raw \in FileContents(season_files[fileIdx + 1])
    /\ SameAsBefore(season_files[fileIdx + 1], raw)
    /\ ~ParseSucceeds(raw)
    /\ contents' = Append(contents, raw)
    /\ tpc' = "error"
    /\ UNCHANGED <<season_files, fileIdx, season_summaries, pairIdx, feature_rows,
                   target_rows, pairs>>
    /\ UNCHANGED seasonVars

\* lines 218-220
StartPairs ==
    /\ tpc = "read"
    /\ fileIdx = Len(season_files)
    /\ feature_rows' = <<>>
    /\ target_rows' = <<>>
    /\ pairIdx' = 0
    /\ tpc' = "pair"
    /\ UNCHANGED <<season_files, fileIdx, contents, season_summaries, pairs>>
    /\ UNCHANGED seasonVars

\* lines 222-224 and the rows of the pair
BuildPair ==
    /\ tpc = "pair"
    /\ pairIdx < NumPairs(Len(season_files))
    /\ LET prev == season_summaries[season_files[PrevIndex(pairIdx) + 1]]
           curr == season_summaries[season_files[CurrIndex(pairIdx) + 1]]
       IN  /\ feature_rows' = feature_rows \o PairFeatures(prev, curr)
           /\ target_rows' = target_rows \o PairTargets(curr)
           /\ pairs' = Append(pairs, [i |-> pairIdx, first |-> Len(feature_rows),
                                      teams |-> [k \in 1..Len(curr) |-> curr[k].team]])
    /\ pairIdx' = pairIdx + 1
    /\ UNCHANGED <<tpc, season_files, fileIdx, contents, season_summaries>>
    /\ UNCHANGED seasonVars

\* the loop of line 222 is over and there were at least 2 seasons
ReturnData ==
    /\ tpc = "pair"
    /\ pairIdx >= NumPairs(Len(season_files))
    /\ Len(season_files) >= 2
    /\ tpc' = "done"
    /\ UNCHANGED <<season_files, fileIdx, contents, season_summaries, pairIdx,
                   feature_rows, target_rows, pairs>>
    /\ UNCHANGED seasonVars

\* fewer than 2 seasons: InsufficientSeasonsError
Insufficient ==
    /\ tpc = "pair"
    /\ pairIdx >= NumPairs(Len(season_files))
    /\ Len(season_files) < 2
    /\ tpc' = "error"
    /\ UNCHANGED <<season_files, fileIdx, contents, season_summaries, pairIdx,
                   feature_rows, target_rows, pairs>>
    /\ UNCHANGED seasonVars

NextTrain ==
    \/ \E raw \in NextContents : ReadFile(raw)
    \/ \E raw \in NextContents : ReadFileFails(raw)
    \/ StartPairs
    \/ BuildPair
    \/ ReturnData
    \/ Insufficient

SpecTrain == InitTrain /\ [][NextTrain]_vars

----------------------------------------------------------------------------
\* Properties of prepare_training_data, stated for SpecTrain

\* the summary of the k-th file read (k from 1)
SummaryOf(k) == summarise_season(parse_match_results(contents[k]))

TeamsOf(s) == {s[i].team : i \in 1..Len(s)}

RowAt(s, pos) == s[CHOOSE i \in 1..Len(s) : s[i].position = pos]

\* the score splits on "-" into exactly two integer-parseable parts
WellFormed(ft) ==
    /\ Len(Split(ft)) = 2
    /\ IsIntLiteral(Split(ft)[1])
    /\ IsIntLiteral(Split(ft)[2])

\* C7: a season file with a record whose score is not "<int>-<int>" makes
\* parse_match_results fail, and prepare_training_data stops at that file
\* without a summary for it.
C7_MalformedAlwaysFails ==
    \A k \in 1..Len(contents) :
        (\E i \in 1..Len(contents[k]) : ~WellFormed(contents[k][i].FT))
        => (tpc = "error" /\ k = Len(contents) /\ fileIdx < k)

\* C8: for every processed pair (n, n+1) there is one training row per team
\* of season n+1; its label is the team's position in season n+1; its
\* features are the team's row of season n verbatim if there is one, and
\* otherwise the mean over the three rows of season n with the largest
\* positions.
C8_FeaturesAndLabels ==
    \A p \in 1..Len(pairs) :
        LET prev == SummaryOf(pairs[p].i + 1)
            curr == SummaryOf(pairs[p].i + 2)
            n == Len(prev)
        IN  /\ Len(pairs[p].teams) = Len(curr)
            /\ {pairs[p].teams[k] : k \in 1..Len(curr)} = TeamsOf(curr)
            /\ \A k \in 1..Len(curr) :
                   LET t == pairs[p].teams[k]
                       feat == feature_rows[pairs[p].first + k]
                   IN  /\ target_rows[pairs[p].first + k] = Loc(curr, t).position
                       /\ \A c \in 1..Len(FeatureCols) :
                              IF t \in TeamsOf(prev)
                              THEN feat[FeatureCols[c]] = <<Loc(prev, t)[FeatureCols[c]], 1>>
                              ELSE 3 * feat[FeatureCols[c]][1] =
                                       feat[FeatureCols[c]][2] *
                                           ( RowAt(prev, n)[FeatureCols[c]]
                                           + RowAt(prev, n - 1)[FeatureCols[c]]
                                           + RowAt(prev, n - 2)[FeatureCols[c]] )

\* a promoted team got a mean that is no row's value, next to a verbatim row,
\* and the season before had a team outside its bottom three
C8_Witness ==
    /\ tpc = "done"
    /\ \E p \in 1..Len(pairs) :
           /\ Len(SummaryOf(pairs[p].i + 1)) > 3
           /\ \E k, m \in 1..Len(pairs[p].teams) :
                  /\ pairs[p].teams[k] \notin TeamsOf(SummaryOf(pairs[p].i + 1))
                  /\ feature_rows[pairs[p].first + k].points[1] % 3 # 0
                  /\ pairs[p].teams[m] \in TeamsOf(SummaryOf(pairs[p].i + 1))
                  /\ target_rows[pairs[p].first + m] > 1

C9_WitnessError == tpc = "error" /\ Len(season_files) = 1 /\ fileIdx = 1

----------------------------------------------------------------------------
\* Properties of summarise_season, stated for SpecSeason

RECURSIVE SumField(_, _)
SumField(rows, field) ==
    IF rows = <<>> THEN 0
    ELSE rows[1][field] + SumField(SubSeq(rows, 2, Len(rows)), field)

\* the accumulator of team t, all zero when t has no entry yet
StatOf(d, t) == IF HasKey(d, t) THEN d[IndexOf(d, t)] ELSE ZeroStats(t)

Appeared == {t \in Teams : played[t] > 0}

StatFields == {"points", "wins", "draws", "losses", "goals_for", "goals_against"}

\* C1: the points of all rows of the returned summary add up to 3 per match
\* with a winner plus 2 per drawn match.
C1_PointsTotal ==
    pc = "done" => SumField(summary, "points") = 3 * nDecisive + 2 * nDraws

C1_Witness == pc = "done" /\ nDecisive > 0 /\ nDraws > 0

\* C2: after every prefix of the match list, and in the returned summary,
\* the goals_for of all teams add up to the goals_against of all teams.
C2_GoalsBalance ==
    /\ SumField(teams, "goals_for") = SumField(teams, "goals_against")
    /\ pc = "done" =>
           SumField(summary, "goals_for") = SumField(summary, "goals_against")

C2_Witness ==
    /\ pc = "done"
    /\ nFolded > 1
    /\ SumField(summary, "goals_for") > 1
    /\ \E i \in 1..Len(summary) : summary[i].goals_for # summary[i].goals_against

\* C3: the summary of a non-empty match list has exactly one row per team
\* that appeared in a match, and the positions are 1..N, each used once.
C3_Positions ==
    pc = "done" =>
        /\ Len(summary) = Cardinality(Appeared)
        /\ {summary[i].team : i \in 1..Len(summary)} = Appeared
        /\ {summary[i].position : i \in 1..Len(summary)} = 1..Cardinality(Appeared)
        /\ \A i, j \in 1..Len(summary) :
               summary[i].position = summary[j].position => i = j

C3_Witness == pc = "done" /\ Cardinality(Appeared) > 2 /\ Len(summary) > 2

\* C4: after every prefix, each team has wins + draws + losses equal to the
\* number of folded matches it took part in, and points = 3 * wins + draws.
C4_PlayedAndPoints ==
    \A t \in Teams :
        /\ StatOf(teams, t).wins + StatOf(teams, t).draws + StatOf(teams, t).losses
               = played[t]
        /\ StatOf(teams, t).points = 3 * StatOf(teams, t).wins + StatOf(teams, t).draws
        /\ HasKey(teams, t) <=> played[t] > 0

C4_Witness ==
    \E t, u \in Teams :
        /\ StatOf(teams, t).wins > 0 /\ StatOf(teams, t).draws > 0
        /\ StatOf(teams, u).losses > 0

\* C5: in the summary, a row never comes after a row with a smaller
\* (points, goal_diff, goals_for) triple, goal_diff being goals_for - goals_against.
C5_SortedByKey ==
    pc = "done" =>
        /\ \A i \in 1..Len(summary) :
               summary[i].goal_diff = summary[i].goals_for - summary[i].goals_against
        /\ \A i, j \in 1..Len(summary) :
               summary[i].position < summary[j].position =>
                   \/ summary[i].points > summary[j].points
                   \/ /\ summary[i].points = summary[j].points
                      /\ summary[i].goal_diff > summary[j].goal_diff
                   \/ /\ summary[i].points = summary[j].points
                      /\ summary[i].goal_diff = summary[j].goal_diff
                      /\ summary[i].goals_for >= summary[j].goals_for

\* sorting moved a later-encountered team ahead, on the third key
C5_Witness ==
    /\ pc = "done"
    /\ \E i, j \in 1..Len(summary) :
           /\ i < j
           /\ firstAt[summary[i].team] > firstAt[summary[j].team]
           /\ summary[i].points = summary[j].points
           /\ summary[i].goal_diff = summary[j].goal_diff
           /\ summary[i].goals_for > summary[j].goals_for

\* C6: the order of the summary is fixed by the match list: teams equal on
\* points, goal_diff and goals_for stand in the order in which the match list
\* first mentions them (home before away within a match).
C6_TiesFirstEncountered ==
    pc = "done" =>
        \A i, j \in 1..Len(summary) :
            ( /\ i < j
              /\ summary[i].points = summary[j].points
              /\ summary[i].goal_diff = summary[j].goal_diff
              /\ summary[i].goals_for = summary[j].goals_for )
            => firstAt[summary[i].team] < firstAt[summary[j].team]

\* two tied teams, with a team that was encountered between them sorted elsewhere
C6_Witness ==
    /\ pc = "done"
    /\ \E i, j, k \in 1..Len(summary) :
           /\ i < j
           /\ summary[i].points = summary[j].points
           /\ summary[i].goal_diff = summary[j].goal_diff
           /\ summary[i].goals_for = summary[j].goals_for
           /\ firstAt[summary[i].team] < firstAt[summary[k].team]
           /\ firstAt[summary[k].team] < firstAt[summary[j].team]
           /\ (k < i \/ k > j)

\* C10: a fold step changes the accumulators of the home and the away team
\* only, by the deltas of exactly one of home win, away win and draw, and no
\* accumulator field of any team decreases.
C10_FoldFrame ==
    [][nFolded' = nFolded + 1 =>
        LET h == last'.home
            a == last'.away
            D(t, f) == StatOf(teams', t)[f] - StatOf(teams, t)[f]
            homeWin == /\ D(h, "points") = 3 /\ D(h, "wins") = 1
                       /\ D(h, "draws") = 0 /\ D(h, "losses") = 0
                       /\ D(a, "points") = 0 /\ D(a, "wins") = 0
                       /\ D(a, "draws") = 0 /\ D(a, "losses") = 1
            awayWin == /\ D(a, "points") = 3 /\ D(a, "wins") = 1
                       /\ D(a, "draws") = 0 /\ D(a, "losses") = 0
                       /\ D(h, "points") = 0 /\ D(h, "wins") = 0
                       /\ D(h, "draws") = 0 /\ D(h, "losses") = 1
            draw ==    /\ D(h, "points") = 1 /\ D(h, "wins") = 0
                       /\ D(h, "draws") = 1 /\ D(h, "losses") = 0
                       /\ D(a, "points") = 1 /\ D(a, "wins") = 0
                       /\ D(a, "draws") = 1 /\ D(a, "losses") = 0
        IN  /\ h # a
            /\ \A t \in Teams \ {h, a} :
                   /\ StatOf(teams', t) = StatOf(teams, t)
                   /\ HasKey(teams', t) <=> HasKey(teams, t)
            /\ StatOf(teams', h) # StatOf(teams, h)
            /\ StatOf(teams', a) # StatOf(teams, a)
            /\ \A t \in Teams : \A f \in StatFields : D(t, f) >= 0
            /\ D(h, "goals_for") = last'.hg /\ D(h, "goals_against") = last'.ag
            /\ D(a, "goals_for") = last'.ag /\ D(a, "goals_against") = last'.hg
            /\ homeWin <=> last'.hg > last'.ag
            /\ awayWin <=> last'.hg < last'.ag
            /\ draw <=> last'.hg = last'.ag
    ]_vars

\* all three branches have been taken, the last on a team seen before
C10_Witness ==
    /\ nFolded > 1
    /\ last.hg = last.ag
    /\ \E t \in Teams : StatOf(teams, t).wins > 0 /\ StatOf(teams, t).draws > 0

====
